---------------------------- MODULE Spec2Model ----------------------------
(***************************************************************************)
(* Model of send_correspondence_email (src/EmailMultiAlternatives.py).     *)
(*                                                                         *)
(* One correspondence record (an Entry with its EntryField key/value rows) *)
(* lives in the record store.  Request workers run the handler; a handler  *)
(* run is cut into steps at the points where it talks to something shared: *)
(* the first read of the record, the mail transport, the second read of    *)
(* the record's fields, and the statements of the storage transaction.     *)
(* Everything a request computes in between is request-local and belongs   *)
(* to the step that precedes it.                                           *)
(*                                                                         *)
(* Not modelled: the HTML/plain-text bodies (template rendering and its    *)
(* fallback change only the body text), logging.                           *)
(***************************************************************************)
EXTENDS Integers, Sequences, FiniteSets, TLC

VARIABLES
    store,        \* EntryField rows of the record: key -> value (a Python dict)
    modified_at,  \* Entry.modified_at
    natt,         \* number of non-deleted DocumentMetadata rows of the record
    req,          \* worker slot -> the request it is running
    delivered,    \* messages the mail transport accepted
    ninv,         \* handler invocations so far
    interleaved,  \* history: some request started while another was running
    txFailed      \* history: some storage transaction was rolled back

vars == <<store, modified_at, natt, req, delivered, ninv, interleaved, txFailed>>

----------------------------------------------------------------------------
(* Bounds *)

MaxRequests == 2
MaxAttach == 3
MaxLen == 6

Slots == {1, 2}
Users == {"alice", "bob"}
EmailId == "e1"
EmailIds == {EmailId, "e404"}
Outcomes == {"ok", "s3", "other"}
LinkedOutcomes == {"found", "missing", "invalid"}
Chars == {"a", "b", " ", ","}

----------------------------------------------------------------------------
(* Values *)

DEFAULT_FROM_EMAIL == "noreply@sys"

RequiredFields == <<"recipient_email", "subject", "email_date", "email_type">>

\* timezone.now(): the k-th clock reading of invocation n
Now(n, k) == "T" \o ToString(n) \o "." \o ToString(k)

\* dict.get(key, default)
Get(f, k, d) == IF k \in DOMAIN f THEN f[k] ELSE d

\* not email_fields.get(key), for a string-valued key
Falsy(f, k) == k \notin DOMAIN f \/ f[k] = ""

\* field.replace("_", " ").title() on the four required field names
Title(field) ==
    CASE field = "recipient_email" -> "Recipient Email"
      [] field = "subject" -> "Subject"
      [] field = "email_date" -> "Email Date"
      [] field = "email_type" -> "Email Type"

RECURSIVE Join(_, _)
Join(seq, sep) ==
    IF Len(seq) = 0 THEN ""
    ELSE IF Len(seq) = 1 THEN seq[1]
    ELSE seq[1] \o sep \o Join(Tail(seq), sep)

----------------------------------------------------------------------------
(* Validation, lines 35-61 *)

RECURSIVE MissingFrom(_, _)
MissingFrom_shortcircuit(f, i) ==
    IF i > Len(RequiredFields) THEN <<>>
    ELSE IF Falsy(f, RequiredFields[i]) THEN <<Title(RequiredFields[i])>>
    ELSE MissingFrom(f, i + 1)

MissingFrom(f, i) ==
    IF i > Len(RequiredFields) THEN <<>>
    ELSE (IF Falsy(f, RequiredFields[i]) THEN <<Title(RequiredFields[i])>> ELSE <<>>)
         \o MissingFrom(f, i + 1)

MissingFields(f) == MissingFrom(f, 1)

StatusAllowsSend_any(f) == TRUE

StatusAllowsSend(f) == Get(f, "status", "") = "Draft"

----------------------------------------------------------------------------
(* Responses *)

ListingView == <<"bluebird:view_internal_purge_records">>

RedirectTarget_listing(f) == ListingView

RedirectTarget(f) ==
    IF ~Falsy(f, "purge_record_id")
    THEN <<"bluebird:view_email_correspondence_for_purge", f["purge_record_id"]>>
    ELSE ListingView

NoResponse == [shape |-> "none"]

JsonResponse(body) == [shape |-> "json", body |-> body]

Redirect(flash, target) == [shape |-> "redirect", flash |-> flash, target |-> target]

\* the error branches inside the outer try: lines 46-57, 65-76, 226-236, 242-252
ErrorResponse(json, f, level, msg) ==
    IF json THEN JsonResponse([success |-> FALSE, error |-> msg])
    ELSE Redirect(<<<<level, msg>>>>, RedirectTarget(f))

\* the outer except clauses: lines 348-368
OuterErrorResponse(json, msg) ==
    IF json THEN JsonResponse([success |-> FALSE, error |-> msg])
    ELSE Redirect(<<<<"error", msg>>>>, ListingView)

----------------------------------------------------------------------------
(* Message construction, lines 80-91 and 154-163.  cc_emails and bcc_emails *)
(* are strings held as sequences of characters, so that split and strip     *)
(* are computed as Python computes them.                                    *)

None == [set |-> FALSE]
Some(v) == [set |-> TRUE, value |-> v]

HasComma(s) == \E i \in 1..Len(s) : s[i] = ","
FirstComma(s) == CHOOSE i \in 1..Len(s) : s[i] = "," /\ \A j \in 1..(i - 1) : s[j] # ","

\* str.split(",")
RECURSIVE Split(_)
Split(s) ==
    IF ~HasComma(s) THEN <<s>>
    ELSE <<SubSeq(s, 1, FirstComma(s) - 1)>> \o Split(SubSeq(s, FirstComma(s) + 1, Len(s)))

RECURSIVE LStrip(_)
LStrip(s) == IF Len(s) > 0 /\ s[1] = " " THEN LStrip(Tail(s)) ELSE s

RECURSIVE RStrip(_)
RStrip(s) == IF Len(s) > 0 /\ s[Len(s)] = " " THEN RStrip(SubSeq(s, 1, Len(s) - 1)) ELSE s

\* str.strip()
Strip(s) == RStrip(LStrip(s))

\* [email.strip() for email in parts if email.strip()]
RECURSIVE StripNonEmpty(_)
StripNonEmpty_keepempty(parts) ==
    IF Len(parts) = 0 THEN <<>>
    ELSE <<Strip(parts[1])>> \o StripNonEmpty(Tail(parts))

StripNonEmpty(parts) ==
    IF Len(parts) = 0 THEN <<>>
    ELSE (IF Len(Strip(parts[1])) > 0 THEN <<Strip(parts[1])>> ELSE <<>>)
         \o StripNonEmpty(Tail(parts))

\* lines 86-91
ParseAddressList(f, k) ==
    LET v == Get(f, k, <<>>)
    IN  IF Len(v) > 0 THEN StripNonEmpty(Split(v)) ELSE <<>>

SenderEmail_blankdefault(f) == Get(f, "sender_email", "")

\* line 83
SenderEmail(f) == Get(f, "sender_email", DEFAULT_FROM_EMAIL)

\* lines 155-163
ComposeMessage(f) ==
    LET cc_list == ParseAddressList(f, "cc_emails")
        bcc_list == ParseAddressList(f, "bcc_emails")
        sender_email == SenderEmail(f)
    IN  [subject |-> Get(f, "subject", ""),
         from_email |-> sender_email,
         to |-> <<Get(f, "recipient_email", "")>>,
         cc |-> IF Len(cc_list) > 0 THEN Some(cc_list) ELSE None,
         bcc |-> IF Len(bcc_list) > 0 THEN Some(bcc_list) ELSE None,
         reply_to |-> IF sender_email # DEFAULT_FROM_EMAIL THEN Some(<<sender_email>>) ELSE None,
         attachments |-> <<>>]

----------------------------------------------------------------------------
(* Attachments, lines 168-210.  outs[i] is what happens to the i-th        *)
(* attachment: it is fetched and attached, the object store raises         *)
(* ClientError, or anything else raises.                                   *)

Filename(i) == "f" \o ToString(i)

AttachStep(acc, i, out) ==
    CASE out = "ok" ->
            [acc EXCEPT !.attached = Append(@, Filename(i))]
      [] out = "s3" ->
            [acc EXCEPT !.errors = Append(@, "S3 error for " \o Filename(i) \o ": ClientError")]
      [] out = "other" ->
            [acc EXCEPT !.errors = Append(@, "Failed to attach " \o Filename(i) \o ": Exception")]

RECURSIVE AttachLoop(_, _, _)
AttachLoop_abort(outs, i, acc) ==
    IF i > Len(outs) THEN acc
    ELSE IF outs[i] # "ok" THEN AttachStep(acc, i, outs[i])
    ELSE AttachLoop(outs, i + 1, AttachStep(acc, i, outs[i]))

AttachLoop(outs, i, acc) ==
    IF i > Len(outs) THEN acc
    ELSE AttachLoop(outs, i + 1, AttachStep(acc, i, outs[i]))

AttachAll(outs) == AttachLoop(outs, 1, [attached |-> <<>>, errors |-> <<>>])

\* lines 309-312
WarningMsg(errors) ==
    "Email sent, but some attachments failed: "
        \o Join(SubSeq(errors, 1, IF Len(errors) < 3 THEN Len(errors) ELSE 3), "; ")
        \o (IF Len(errors) > 3 THEN " and " \o ToString(Len(errors) - 3) \o " more..." ELSE "")

----------------------------------------------------------------------------
(* A request *)

NoMessage == [built |-> FALSE]
NoPlan == [create |-> <<>>, update |-> <<>>]

IdleReq ==
    [pc |-> "idle", n |-> 0, id |-> "", json |-> FALSE, user |-> "",
     fields |-> <<>>, msg |-> NoMessage, outs |-> <<>>, errors |-> <<>>, sent |-> "no",
     plan |-> NoPlan, outcome |-> "none", resp |-> NoResponse]

Ended(q, outcome, resp) == [q EXCEPT !.pc = "done", !.outcome = outcome, !.resp = resp]

\* lines 26-210: from the lookup to the message ready for the transport
StartRequest(n, id, json, user, linked, outs, st) ==
    LET base == [IdleReq EXCEPT !.n = n, !.id = id, !.json = json, !.user = user]
        got == [base EXCEPT !.fields = st]
        missing == MissingFields(st)
        att == AttachAll(outs)
    IN  IF id # EmailId
        THEN Ended(base, "notfound",
                   OuterErrorResponse(json, "Email correspondence with ID " \o id \o " not found."))
        ELSE IF Len(missing) > 0
        THEN Ended(got, "validation",
                   ErrorResponse(json, st, "error",
                       "Cannot send email. Missing required fields: " \o Join(missing, ", ")))
        ELSE IF ~StatusAllowsSend(st)
        THEN Ended(got, "conflict",
                   ErrorResponse(json, st, "warning",
                       "Email cannot be sent. Current status: " \o Get(st, "status", "")
                           \o ". Only Draft emails can be sent."))
        ELSE IF ~Falsy(st, "purge_record_id") /\ linked = "invalid"
        THEN Ended(got, "prep",
                   ErrorResponse(json, st, "error", "Error preparing email: ValueError"))
        ELSE [got EXCEPT !.pc = "send",
                         !.msg = [ComposeMessage(st) EXCEPT !.attachments = att.attached],
                         !.outs = outs,
                         !.errors = att.errors]

\* lines 212-236
Transport(q, ok) ==
    IF ok
    THEN [q EXCEPT !.pc = "update", !.sent = "ok"]
    ELSE Ended([q EXCEPT !.sent = "failed"], "sendfail",
               ErrorResponse(q.json, q.fields, "error", "Failed to send email: SMTPException"))

SentValue(q, k) ==
    CASE k = "status" -> "Sent"
      [] k = "sent_date" -> Now(q.n, 1)
      [] k = "sent_by" -> q.user

SentKeys == {"status", "sent_date", "sent_by"}

\* lines 256-289
PlanWrites_nostatus(q, existing) ==
    [create |-> [k \in (SentKeys \ {"status"}) \ DOMAIN existing |-> SentValue(q, k)],
     update |-> [k \in (SentKeys \ {"status"}) \cap DOMAIN existing |-> SentValue(q, k)]]

PlanWrites(q, existing) ==
    [create |-> [k \in SentKeys \ DOMAIN existing |-> SentValue(q, k)],
     update |-> [k \in SentKeys \cap DOMAIN existing |-> SentValue(q, k)]]

Apply(st, writes) == writes @@ st

\* transaction.atomic(), lines 292-303: what the statements of a transaction
\* have written is in the store for others only once the block has ended
TxVisible_autocommit(st, writes, committed) == Apply(st, writes)

TxVisible(st, writes, committed) == IF committed THEN Apply(st, writes) ELSE st

\* lines 305-346 and 368
SuccessResponse(q) ==
    LET success_msg == "Email '" \o Get(q.fields, "subject", "")
                          \o "' has been sent successfully to "
                          \o Get(q.fields, "recipient_email", "") \o "."
        body == [success |-> TRUE, message |-> success_msg, status |-> "Sent",
                 sent_date |-> Now(q.n, 3)]
    IN  IF Len(q.errors) > 0
        THEN IF q.json
             THEN JsonResponse(("warning" :> WarningMsg(q.errors)) @@ body)
             ELSE Redirect(<<<<"success", success_msg>>, <<"warning", WarningMsg(q.errors)>>>>,
                           RedirectTarget(q.fields))
        ELSE IF q.json
             THEN JsonResponse(body)
             ELSE Redirect(<<<<"success", success_msg>>>>, RedirectTarget(q.fields))

----------------------------------------------------------------------------
(* Actions *)

Busy(r) == req[r].pc \notin {"idle", "done"}

Start(r) ==
    /\ req[r].pc = "idle"
    /\ \A o \in Slots : o < r => req[o].pc # "idle"
    /\ ninv < MaxRequests
    /\ \E id \in EmailIds, json \in BOOLEAN, user \in Users, linked \in LinkedOutcomes,
          outs \in [1..natt -> Outcomes] :
            req' = [req EXCEPT ![r] = StartRequest(ninv + 1, id, json, user, linked, outs, store)]
    /\ ninv' = ninv + 1
    /\ interleaved' = (interleaved \/ \E o \in Slots \ {r} : Busy(o))
    /\ UNCHANGED <<store, modified_at, natt, delivered, txFailed>>

Send(r) ==
    /\ req[r].pc = "send"
    /\ \E ok \in BOOLEAN :
        /\ req' = [req EXCEPT ![r] = Transport(@, ok)]
        /\ delivered' = IF ok THEN delivered + 1 ELSE delivered
    /\ UNCHANGED <<store, modified_at, natt, ninv, interleaved, txFailed>>

ReadExisting(r) ==
    /\ req[r].pc = "update"
    /\ LET plan == PlanWrites(req[r], store)
       IN  req' = [req EXCEPT ![r].plan = plan,
                              ![r].pc = IF DOMAIN plan.create # {} THEN "txcreate"
                                        ELSE "txupdate"]
    /\ UNCHANGED <<store, modified_at, natt, delivered, ninv, interleaved, txFailed>>

TxCreate(r) ==
    /\ req[r].pc = "txcreate"
    /\ store' = TxVisible(store, req[r].plan.create, FALSE)
    /\ req' = [req EXCEPT ![r].pc = IF DOMAIN req[r].plan.update # {} THEN "txupdate"
                                    ELSE "txsave"]
    /\ UNCHANGED <<modified_at, natt, delivered, ninv, interleaved, txFailed>>

TxUpdate(r) ==
    /\ req[r].pc = "txupdate"
    /\ store' = TxVisible(store, req[r].plan.update, FALSE)
    /\ req' = [req EXCEPT ![r].pc = "txsave"]
    /\ UNCHANGED <<modified_at, natt, delivered, ninv, interleaved, txFailed>>

TxSave(r) ==
    /\ req[r].pc = "txsave"
    /\ store' = TxVisible(store, req[r].plan.create @@ req[r].plan.update, TRUE)
    /\ modified_at' = Now(req[r].n, 2)
    /\ req' = [req EXCEPT ![r] = Ended(@, "success", SuccessResponse(@))]
    /\ UNCHANGED <<natt, delivered, ninv, interleaved, txFailed>>

\* a statement of the transaction raises: rollback, then lines 357-368
TxFail(r) ==
    /\ req[r].pc \in {"txcreate", "txupdate", "txsave"}
    /\ req' = [req EXCEPT ![r] = Ended(@, "unexpected",
                   OuterErrorResponse(@.json, "Error sending email: DatabaseError"))]
    /\ txFailed' = TRUE
    /\ UNCHANGED <<store, modified_at, natt, delivered, ninv, interleaved>>

\* the response has gone out; the worker is free for the next request
Finish(r) ==
    /\ req[r].pc = "done"
    /\ req' = [req EXCEPT ![r] = IdleReq]
    /\ UNCHANGED <<store, modified_at, natt, delivered, ninv, interleaved, txFailed>>

----------------------------------------------------------------------------
(* Records *)

FieldStates == {"present", "absent", "empty"}

RequiredPart(shape) ==
    LET keys == {RequiredFields[i] : i \in {j \in 1..Len(RequiredFields) : shape[j] # "absent"}}
        Idx(k) == CHOOSE i \in 1..Len(RequiredFields) : RequiredFields[i] = k
        Val(k) == IF shape[Idx(k)] = "empty" THEN "" ELSE "v-" \o k
    IN  [k \in keys |-> Val(k)]

AllPresent == [i \in 1..Len(RequiredFields) |-> "present"]

StatusPart(s) == IF s = "absent" THEN <<>> ELSE [status |-> s]

SentPart(s) ==
    IF s = "Sent" THEN [sent_date |-> "T0.1", sent_by |-> "carol"] ELSE <<>>

PurgePart(p) == IF p = "absent" THEN <<>> ELSE [purge_record_id |-> p]

\* every way of missing required fields, and every status and linked id of
\* a record that has them all
Records ==
    {RequiredPart(shape) @@ StatusPart(s) @@ SentPart(s) @@ PurgePart(p) :
        shape \in [1..Len(RequiredFields) -> FieldStates] \ {AllPresent},
        s \in {"Draft", "Sent"},
        p \in {"absent", "p7"}}
    \cup
    {RequiredPart(AllPresent) @@ StatusPart(s) @@ SentPart(s) @@ PurgePart(p) :
        s \in {"absent", "", "Draft", "Sent"},
        p \in {"absent", "", "p7"}}

Sendable(st) == Len(MissingFields(st)) = 0 /\ Get(st, "status", "") = "Draft"

InitCommon ==
    /\ modified_at = "T0.2"
    /\ req = [r \in Slots |-> IdleReq]
    /\ delivered = 0
    /\ ninv = 0
    /\ interleaved = FALSE
    /\ txFailed = FALSE

Init ==
    /\ store \in Records
    /\ natt \in (IF Sendable(store) THEN {0, 1} ELSE {0})
    /\ InitCommon

Next ==
    \E r \in Slots :
        \/ Start(r)
        \/ Send(r)
        \/ ReadExisting(r)
        \/ TxCreate(r)
        \/ TxUpdate(r)
        \/ TxSave(r)
        \/ TxFail(r)
        \/ Finish(r)

Spec == Init /\ [][Next]_vars

----------------------------------------------------------------------------
(* One worker, a sendable record with any number of attachments *)

SendableRecords == {st \in Records : Sendable(st)}

InitAttach ==
    /\ store \in SendableRecords
    /\ natt \in 0..MaxAttach
    /\ InitCommon

NextAttach ==
    \/ Start(1)
    \/ Send(1)
    \/ ReadExisting(1)
    \/ TxCreate(1)
    \/ TxUpdate(1)
    \/ TxSave(1)
    \/ TxFail(1)
    \/ Finish(1)

SpecAttach == InitAttach /\ [][NextAttach]_vars

----------------------------------------------------------------------------
(* Message construction alone: a sendable record with any sender_email,   *)
(* cc_emails and bcc_emails, taken by one request up to the transport     *)

Strings == UNION {[1..n -> Chars] : n \in 0..MaxLen}

DraftRecord == RequiredPart(AllPresent) @@ StatusPart("Draft")

AddressedRecords ==
    {DraftRecord}
    \cup {[sender_email |-> v] @@ DraftRecord : v \in {"", DEFAULT_FROM_EMAIL, "ops@x"}}
    \cup {[cc_emails |-> v] @@ DraftRecord : v \in Strings}
    \cup {[bcc_emails |-> v] @@ DraftRecord : v \in Strings}

InitCompose ==
    /\ store \in AddressedRecords
    /\ natt = 0
    /\ InitCommon

NextCompose == Start(1)

SpecCompose == InitCompose /\ [][NextCompose]_vars

----------------------------------------------------------------------------
(* Properties *)

\* the text the caller is shown on failure
ErrorText(resp) == IF resp.shape = "json" THEN resp.body.error ELSE resp.flash[1][2]

Present(st, k) == k \in DOMAIN st /\ st[k] # ""

MissingSet(st) == {i \in 1..Len(RequiredFields) : ~Present(st, RequiredFields[i])}

\* request r takes up the record in this step
Takes(r) == req[r].pc = "idle" /\ req'[r].pc # "idle" /\ req'[r].id = EmailId

Untouched ==
    /\ store' = store
    /\ modified_at' = modified_at
    /\ delivered' = delivered

\* C1: a request that finds all four required fields and a status other than
\* "Draft" (absent and empty included) ends at once with the state-conflict
\* error naming that status, without calling the transport and without
\* changing the record or its modification timestamp.
C1_NonDraftRejected ==
    [][\A r \in Slots :
        (Takes(r) /\ MissingSet(store) = {} /\ Get(store, "status", "") # "Draft")
        => /\ req'[r].pc = "done"
           /\ req'[r].resp.shape \in {"json", "redirect"}
           /\ req'[r].resp.shape = "json" => req'[r].resp.body.success = FALSE
           /\ ErrorText(req'[r].resp) =
                "Email cannot be sent. Current status: " \o Get(store, "status", "")
                    \o ". Only Draft emails can be sent."
           /\ req'[r].sent = "no"
           /\ Untouched]_vars

C1_Witness ==
    \E r \in Slots :
        /\ req[r].pc = "done"
        /\ req[r].json
        /\ MissingSet(req[r].fields) = {}
        /\ req[r].resp = JsonResponse([success |-> FALSE, error |->
              "Email cannot be sent. Current status: Sent. Only Draft emails can be sent."])
        /\ req[r].sent = "no"

\* C2: a request that reached the transport ends, after a successful send,
\* with status, sent_date and sent_by holding "Sent", its timestamp and its
\* user, and after a failed send with the record unchanged.
C2_SentImpliesRecorded ==
    [][\A r \in Slots :
        (req[r].pc # "done" /\ req'[r].pc = "done" /\ req'[r].sent # "no")
        => IF req'[r].sent = "ok"
           THEN \A k \in SentKeys : k \in DOMAIN store' /\ store'[k] = SentValue(req'[r], k)
           ELSE store' = store /\ modified_at' = modified_at]_vars

\* C3: whenever the record or its modification timestamp changes, the change
\* is the whole update of one request whose send the transport has accepted:
\* status, sent_date, sent_by and the timestamp together, nothing else.
C3_AtomicAfterSend ==
    [][(store' # store \/ modified_at' # modified_at)
        => \E r \in Slots :
            /\ req[r].sent = "ok"
            /\ DOMAIN store' = DOMAIN store \cup SentKeys
            /\ \A k \in SentKeys : store'[k] = SentValue(req[r], k)
            /\ \A k \in DOMAIN store \ SentKeys : store'[k] = store[k]
            /\ modified_at' = Now(req[r].n, 2)]_vars

C3_Witness ==
    /\ interleaved
    /\ \E r \in Slots :
        /\ req[r].outcome = "success"
        /\ store["status"] = "Sent"
        /\ store["sent_by"] = req[r].user
        /\ store["sent_date"] = Now(req[r].n, 1)
        /\ modified_at = Now(req[r].n, 2)
        /\ \E o \in Slots \ {r} : Busy(o)

OrderedLabels(S) ==
    LET F[i \in 0..Len(RequiredFields)] ==
            IF i = 0 THEN <<>>
            ELSE IF i \in S THEN Append(F[i - 1], Title(RequiredFields[i]))
            ELSE F[i - 1]
    IN  F[Len(RequiredFields)]

\* C4: when some required fields are missing (absent or empty), the request
\* ends with one message listing exactly the missing ones in the fixed order,
\* whatever the status, without calling the transport or changing the record.
C4_AllMissingListed ==
    [][\A r \in Slots :
        (Takes(r) /\ MissingSet(store) # {})
        => /\ req'[r].pc = "done"
           /\ ErrorText(req'[r].resp) =
                "Cannot send email. Missing required fields: "
                    \o Join(OrderedLabels(MissingSet(store)), ", ")
           /\ req'[r].resp.shape = "redirect" => Len(req'[r].resp.flash) = 1
           /\ req'[r].sent = "no"
           /\ Untouched]_vars

C4_Witness ==
    \E r \in Slots :
        /\ req[r].pc = "done"
        /\ req[r].resp = JsonResponse([success |-> FALSE, error |->
              "Cannot send email. Missing required fields: Recipient Email, Email Date"])
        /\ "recipient_email" \notin DOMAIN req[r].fields
        /\ Get(req[r].fields, "email_date", "absent") = ""
        /\ Get(req[r].fields, "status", "") = "Sent"
        /\ req[r].sent = "no"

Failed(outs) == {i \in 1..Len(outs) : outs[i] # "ok"}

HasWarning(resp) ==
    IF resp.shape = "json" THEN "warning" \in DOMAIN resp.body
    ELSE \E i \in 1..Len(resp.flash) : resp.flash[i][1] = "warning"

AttachmentsHandled ==
    \A r \in Slots :
        /\ (Takes(r) /\ Sendable(store) /\ req'[r].outcome # "prep") => req'[r].pc = "send"
        /\ req'[r].msg # NoMessage =>
            /\ Len(req'[r].outs) = natt
            /\ Len(req'[r].msg.attachments) = natt - Cardinality(Failed(req'[r].outs))
            /\ \A i \in 1..natt :
                 req'[r].outs[i] = "ok" <=>
                    \E j \in 1..Len(req'[r].msg.attachments) :
                        req'[r].msg.attachments[j] = Filename(i)
            /\ \A j, k \in 1..Len(req'[r].msg.attachments) :
                 j < k => \E a, b \in 1..natt :
                    /\ a < b
                    /\ req'[r].msg.attachments[j] = Filename(a)
                    /\ req'[r].msg.attachments[k] = Filename(b)
            /\ req'[r].outcome = "success" =>
                 (HasWarning(req'[r].resp) <=> Failed(req'[r].outs) # {})

C6_SendOnOwnRead ==
    [][\A r \in Slots :
        (req[r].pc = "send" /\ req'[r].sent = "ok")
        => /\ Get(req[r].fields, "status", "") = "Draft"
           /\ delivered' = delivered + 1]_vars

C6_Witness ==
    /\ delivered = 2
    /\ \A r \in Slots :
        /\ req[r].outcome = "success"
        /\ Get(req[r].fields, "status", "") = "Draft"
        /\ req[r].sent = "ok"
    /\ store["status"] = "Sent"

\* C7: the composed message has Reply-To exactly when the record has a
\* sender_email that differs from the default sender, and then it is that
\* address; without a sender_email, or with the default one, it has none.
C7_ReplyTo ==
    \A r \in Slots :
        req[r].msg # NoMessage =>
            IF "sender_email" \in DOMAIN req[r].fields
               /\ req[r].fields["sender_email"] # DEFAULT_FROM_EMAIL
            THEN req[r].msg.reply_to = Some(<<req[r].fields["sender_email"]>>)
            ELSE req[r].msg.reply_to = None

C7_Witness ==
    \E r \in Slots :
        /\ req[r].msg # NoMessage
        /\ "sender_email" \in DOMAIN req[r].fields
        /\ req[r].msg.reply_to = Some(<<"ops@x">>)

Min(S) == CHOOSE x \in S : \A y \in S : x <= y
Max(S) == CHOOSE x \in S : \A y \in S : x >= y

\* the positions around the comma-separated entries of s
Cuts(s) == {0, Len(s) + 1} \cup {i \in 1..Len(s) : s[i] = ","}

\* the entry that starts after cut lo, without its surrounding blanks
Entry(s, lo) ==
    LET hi == Min({c \in Cuts(s) : c > lo})
        solid == {i \in (lo + 1)..(hi - 1) : s[i] # " "}
    IN  IF solid = {} THEN <<>> ELSE SubSeq(s, Min(solid), Max(solid))

Kept(s) == {lo \in Cuts(s) \ {Len(s) + 1} : Entry(s, lo) # <<>>}

Entries(s) ==
    [j \in 1..Cardinality(Kept(s)) |->
        Entry(s, CHOOSE lo \in Kept(s) : Cardinality({x \in Kept(s) : x < lo}) = j - 1)]

Addressees(f, k) ==
    IF k \in DOMAIN f /\ Entries(f[k]) # <<>> THEN Some(Entries(f[k])) ELSE None

\* C8: Cc and Bcc of the composed message are the comma-separated entries of
\* cc_emails and bcc_emails in their order, each without surrounding blanks,
\* the blank ones dropped; an absent or empty string, or one with blank
\* entries only, sets no Cc/Bcc.
C8_AddressLists ==
    \A r \in Slots :
        req[r].msg # NoMessage =>
            /\ req[r].msg.cc = Addressees(req[r].fields, "cc_emails")
            /\ req[r].msg.bcc = Addressees(req[r].fields, "bcc_emails")

C8_Witness ==
    \E r \in Slots :
        /\ req[r].msg # NoMessage
        /\ "cc_emails" \in DOMAIN req[r].fields
        /\ req[r].fields["cc_emails"] = <<"a", ",", " ", ",", " ", "b">>
        /\ req[r].msg.cc = Some(<<<<"a">>, <<"b">>>>)
        /\ req[r].msg.bcc = None

Shaped(q) ==
    IF q.json
    THEN q.resp.shape = "json" /\ "success" \in DOMAIN q.resp.body
    ELSE q.resp.shape = "redirect" /\ Len(q.resp.flash) >= 1

LinkedView(q) ==
    IF Present(q.fields, "purge_record_id")
    THEN <<"bluebird:view_email_correspondence_for_purge", q.fields["purge_record_id"]>>
    ELSE ListingView

\* C9 as stated: every ended request has its one response, a structured
\* result with a success flag for application/json, otherwise flash and a
\* redirect to the linked record's view when the record has a
\* purge_record_id and to the listing when it has none.
C9_Original ==
    \A r \in Slots :
        req[r].pc = "done" =>
            /\ Shaped(req[r])
            /\ ~req[r].json => req[r].resp.target = LinkedView(req[r])

\* C9 amended: as above, but a request that ends in the not-found or the
\* unexpected-error handler is redirected to the listing whether or not the
\* record has a purge_record_id.
C9_Responses ==
    \A r \in Slots :
        /\ req[r].pc = "done" =>
            /\ Shaped(req[r])
            /\ ~req[r].json =>
                 req[r].resp.target =
                    IF req[r].outcome \in {"notfound", "unexpected"} THEN ListingView
                    ELSE LinkedView(req[r])
        /\ req[r].pc # "done" => req[r].resp = NoResponse

C9_Witness ==
    \E r \in Slots :
        /\ req[r].outcome = "unexpected"
        /\ ~req[r].json
        /\ Get(req[r].fields, "purge_record_id", "") = "p7"
        /\ req[r].resp.target = ListingView

Quiet == ~interleaved' /\ ~txFailed'

IsSent(st) == Get(st, "status", "") = "Sent"

\* C10: with requests handled one at a time and no transaction failing, the
\* transport accepts at most one send; a request that has sent leaves the
\* status "Sent"; from then on the record does not change, nothing more is
\* delivered, and every request for the record ends in the state conflict
\* without reaching the transport.
C10_SentOnce ==
    [][Quiet =>
        /\ delivered' <= 1
        /\ IsSent(store) => IsSent(store')
        /\ \A r \in Slots : req'[r].outcome = "success" => IsSent(store')
        /\ (delivered >= 1 /\ IsSent(store)) =>
            /\ Untouched
            /\ \A r \in Slots : Takes(r) =>
                 req'[r].outcome = "conflict" /\ req'[r].sent = "no"]_vars

C10_Witness ==
    /\ ~interleaved
    /\ ~txFailed
    /\ delivered = 1
    /\ req[1].outcome = "success"
    /\ req[2].outcome = "conflict"
    /\ req[2].user # req[1].user
    /\ store["sent_by"] = req[1].user
    /\ store["sent_date"] = Now(req[1].n, 1)

=============================================================================
